---- MODULE Spec2Model ----
(***************************************************************************)
(* A model of the shell of src/src/shell.c: the read-eval loop             *)
(* (shell_main), the pipeline executor (execute_pipeline and the child     *)
(* side of execute_command), and the SIGINT handler, together with the     *)
(* kernel objects they act on: processes, process groups, pipe             *)
(* descriptors and the controlling terminal.                               *)
(*                                                                         *)
(* Command indices are the C indices 0..N-1; command i of the pipeline is  *)
(* pl[i+1].  Pipe i connects command i to command i+1; its two ends are    *)
(* the descriptors <<line, i, "r">> and <<line, i, "w">>, where line       *)
(* numbers the execute_pipeline call that created the pipe.                *)
(***************************************************************************)
EXTENDS Integers, Sequences, FiniteSets, TLC

\* Longest pipeline (number of commands) the terminal user types.
MaxCmds == 2
\* Number of command lines read before end-of-input.
MaxLines == 1
\* Number of times Ctrl+C is pressed at the terminal.
MaxSigints == 1

\* Longest line handed to parse_command, in lexemes (see LineOf).
MaxWords == 4

\* Most words per command on the lines that probe the limits (see LimitLine).
MaxArgs == 4

SIGINT == 2
MAX_TOKENS == 256
MAX_PIPES == 64
\* The process group of the shell itself; every child starts in it (fork).
ShellPgid == 1

VARIABLES
  pc,                 \* where the shell process is
  pl,                 \* the pipeline_t being executed (<<>> at the prompt)
  i,                  \* the loop index of execute_pipeline's current loop
  pids,               \* pids[] of execute_pipeline, as filled so far
  ret,                \* execute_pipeline's local exit_status / return value
  exit_status,        \* shell_main's exit_status
  g_foreground_pgid,  \* the foreground-group-id cell
  g_interrupted,      \* the was-interrupted flag
  shell_fds,          \* pipe descriptors open in the shell process
  shell_std,          \* what descriptors 0, 1, 2 of the shell process refer to
  pipe_data,          \* the pipes programs have written to: bytes buffered
                      \* and bytes written so far
  procs,              \* the shell's children that are not yet reaped
  nextPid,            \* the pid the next fork returns
  budget,             \* what the user may still do: lines to type, Ctrl+C
                      \* presses, commands per line, commands with
                      \* redirections per line
  waited,             \* history: the waitpid calls that returned, this call
  printed,            \* history: the pid printed in brackets, this call
  launched,           \* history: the command indices forked, this call
  failed_at,          \* history: index whose launch failed, this call (-1: none)
  path,               \* history: how this call left ("", "alloc", "pipe", ...)
  intr,               \* history: the handler ran while the programs ran
  bg_sigint,          \* history: a background process received SIGINT
  line,               \* parse_command: the line it is called with
  ppc,                \* parse_command: where the call is
  tokens,             \* parse_command: the token array tokenize filled
  pipeline,           \* parse_command: the pipeline_t it fills
  result,             \* parse_command: its return value
  heap                \* parse_command, free_pipeline: the live allocations

parseVars == <<line, ppc, tokens, pipeline, result, heap>>

vars == <<pc, pl, i, pids, ret, exit_status, g_foreground_pgid, g_interrupted,
          shell_fds, shell_std, pipe_data, procs, nextPid, budget, waited,
          printed,
          launched, failed_at, path, intr, bg_sigint, parseVars>>

callVars == <<pl, pids, waited, printed, launched, failed_at, path>>
sigVars == <<g_foreground_pgid, g_interrupted, intr, bg_sigint>>

----------------------------------------------------------------------------
\* The parsed pipelines the loop hands to execute_pipeline.

\* command_t: argv stands for "argv is non-NULL and argv[0] is non-NULL".
CommandShapes ==
  {c \in [argv : BOOLEAN, input_file : BOOLEAN, output_file : BOOLEAN,
          append_output : BOOLEAN, background : BOOLEAN] :
      c.append_output => c.output_file}

HasRedir(c) == c.input_file \/ c.output_file

NumRedirs(p) == Cardinality({j \in 1..Len(p) : HasRedir(p[j])})

\* The commands the user types: without redirections when the budget has none.
Shapes == {c \in CommandShapes : budget.redirs = 0 => ~HasRedir(c)}

\* parse_tokens sets background only on the last command of the line.
Pipelines ==
  UNION {{p \in [1..n -> Shapes] :
            \A j \in 1..(n - 1) : ~p[j].background} : n \in 1..budget.cmds}

N == Len(pl)
Background == pl[N].background

\* The descriptor execute_pipeline passes to command idx as input_fd / output_fd
\* (the empty set stands for -1).
InputFd(ln, idx) == IF idx > 0 THEN {<<ln, idx - 1, "r">>} ELSE {}
OutputFd(ln, idx, n) == IF idx < n - 1 THEN {<<ln, idx, "w">>} ELSE {}

Line == budget.lines

Tty == <<0, 0, "tty">>
InFile == <<0, 0, "file">>
OutFile(append) == IF append THEN <<0, 0, "append">> ELSE <<0, 0, "trunc">>

----------------------------------------------------------------------------
\* Processes and signals.  A process table t maps the pids of the children
\* that can still act or be waited for to their records.

PreExec(p) == procs[p].stage \in {"forked", "grouped"}

\* A child of an earlier execute_pipeline call: the shell holds its pid no more.
\* Such a child (a background job) still belongs to its process group and still
\* receives signals.  Its own steps are taken before the call that launched
\* it returns: they commute with every later step of the shell and of the
\* later children, which share no pipe and no pid with it.
Detached(c) == c.line # Line

\* The live members of process group g in table t.
Group(t, g) == {p \in DOMAIN t : t[p].stage # "zombie" /\ t[p].pgid = g}

\* A child that has not called execvp yet still runs the handler it inherited
\* from the shell, with its copy of g_foreground_pgid; so a SIGINT it receives
\* is forwarded to that group.  Reached(t, T) is every process a SIGINT sent
\* to the processes T ends up being delivered to.
RECURSIVE Reached(_, _)
Reached(t, T) ==
  LET fwd == {q \in T : t[q].stage \in {"forked", "grouped"} /\ t[q].fgcopy > 0}
      more == UNION {Group(t, t[q].fgcopy) : q \in fwd}
  IN  IF more \subseteq T THEN T ELSE Reached(t, T \cup more)

\* Child c terminated with status st: all its descriptors are closed.
Dead(c, st) ==
  [c EXCEPT !.stage = "zombie", !.status = st, !.fds = {},
            !.stdin = <<0, 0, "tty">>, !.stdout = <<0, 0, "tty">>]

\* A terminated child nobody can wait for any more leaves the table: no step
\* of the shell or of another process depends on it.
Forget(t) ==
  [p \in {q \in DOMAIN t : ~(t[q].stage = "zombie" /\ Detached(t[q]))} |-> t[p]]

\* The table after SIGINT is delivered to the processes R of t: a program
\* (after execvp) takes the default action and dies; a child before execvp
\* runs the inherited handler and goes on.
Deliver(t, R) ==
  [p \in DOMAIN t |->
     IF p \in R /\ t[p].stage = "running"
       THEN Dead(t[p], <<"sig", SIGINT, "signal">>)
       ELSE t[p]]


\* WaitStatus without the 128 offset of a signalled child.
WaitStatus_raw(st) == st[2]

\* WIFEXITED / WEXITSTATUS / WIFSIGNALED / WTERMSIG of the last command.
WaitStatus(st) == IF st[1] = "exit" THEN st[2] ELSE 128 + st[2]

\* What waitpid stores in *status for child c: how it ended and the code.
Status(c) == <<c.status[1], c.status[2]>>

\* Reap leaving the terminated child in the table.
Reap_keep(p) == procs

\* waitpid(p) returned: the terminated child p is gone from the process table.
Reap(p) == [q \in DOMAIN procs \ {p} |-> procs[q]]

----------------------------------------------------------------------------
\* The shell at its first prompt, the user having budget b.
Start(b) ==
  /\ pc = "prompt"
  /\ pl = <<>>
  /\ i = 0
  /\ pids = <<>>
  /\ ret = 0
  /\ exit_status = 0
  /\ g_foreground_pgid = 0
  /\ g_interrupted = 0
  /\ shell_fds = {}
  /\ shell_std = <<Tty, Tty, Tty>>
  /\ pipe_data = [d \in {} |-> 0]
  /\ procs = [p \in {} |-> 0]
  /\ nextPid = ShellPgid + 1
  /\ budget = b
  /\ waited = <<>>
  /\ printed = 0
  /\ launched = {}
  /\ failed_at = -1
  /\ path = ""
  /\ intr = FALSE
  /\ bg_sigint = FALSE

\* The allocations that are live, counted by what they hold: the token array
\* and its strings (parse_command, tokenize), the command array, the argument
\* vectors and their strings, and the redirection file names (parse_tokens).
NoHeap == [tokens |-> 0, token |-> 0, commands |-> 0, argv |-> 0, arg |-> 0,
           file |-> 0]

\* n allocations of a kind made (calloc, strdup), or released (free).
Alloc(hp, kind, n) == [hp EXCEPT ![kind] = @ + n]
Free(hp, kind, n) == [hp EXCEPT ![kind] = @ - n]

\* The loop of free_pipeline over commands k..num_commands (1-based): argv
\* and its strings if argv is not NULL, then the file names that are not NULL.
RECURSIVE FreeCommands(_, _, _)
FreeCommands(p, k, hp) ==
  IF k > p.num_commands THEN hp
  ELSE LET cmd == p.commands[k]
           h1 == IF cmd.has_argv
                   THEN Free(Free(hp, "arg", Len(cmd.argv)), "argv", 1)
                   ELSE hp
           h2 == IF cmd.input_file # <<>> THEN Free(h1, "file", 1) ELSE h1
           h3 == IF cmd.output_file # <<>> THEN Free(h2, "file", 1) ELSE h2
       IN  FreeCommands(p, k + 1, h3)

\* free_pipeline that leaves commands and num_commands as they were.
free_pipeline_dangling(p, hp) ==
  [pipeline |-> p,
   heap |-> LET h == FreeCommands(p, 1, hp)
            IN  IF p.commands # <<>> THEN Free(h, "commands", 1) ELSE h]

\* free_pipeline on a pipeline that is not NULL: the pipeline and the heap it
\* leaves.  free(NULL) releases nothing.
free_pipeline(p, hp) ==
  [pipeline |-> [commands |-> <<>>, num_commands |-> 0],
   heap |-> LET h == FreeCommands(p, 1, hp)
            IN  IF p.commands # <<>> THEN Free(h, "commands", 1) ELSE h]

\* No parse_command call is being followed.
ParseIdle ==
  /\ line = <<>>
  /\ ppc = "idle"
  /\ tokens = <<>>
  /\ pipeline = [commands |-> <<>>, num_commands |-> 0]
  /\ result = 0
  /\ heap = NoHeap

Init ==
  /\ Start([lines |-> MaxLines, sigints |-> MaxSigints, cmds |-> MaxCmds,
            redirs |-> 0])
  /\ ParseIdle

----------------------------------------------------------------------------
\* shell_main and execute_pipeline: the steps of the shell process.

\* The pipelines the terminal user may still type.
Typed == {p \in Pipelines : NumRedirs(p) <= budget.redirs}

\* fgets returns a line that parses to a non-empty pipeline; execute_pipeline
\* is entered and its two calloc calls succeed.
ReadLine ==
  /\ pc = "prompt"
  /\ budget.lines > 0
  /\ \E p \in Typed :
       /\ pl' = p
       /\ pc' = IF Len(p) > 1 THEN "pipes" ELSE "launch"
  /\ i' = 0
  /\ ret' = 0
  /\ UNCHANGED <<parseVars, pids, exit_status, shell_fds, shell_std,
                 pipe_data, procs,
                 nextPid, budget,
                 waited, printed, launched, failed_at, path, sigVars>>

\* The same, but calloc fails: execute_pipeline returns 1 at once.
AllocFail ==
  /\ pc = "prompt"
  /\ budget.lines > 0
  /\ \E p \in Typed : pl' = p
  /\ pc' = "ret"
  /\ ret' = 1
  /\ path' = "alloc"
  /\ UNCHANGED <<parseVars, i, pids, exit_status, shell_fds, shell_std,
                 pipe_data, procs,
                 nextPid, budget,
                 waited, printed, launched, failed_at, sigVars>>

\* An empty line, a comment or a parse error: the loop continues.
SkipLine ==
  /\ pc = "prompt"
  /\ budget.lines > 0
  /\ budget' = [budget EXCEPT !.lines = @ - 1]
  /\ g_interrupted' = 0
  /\ UNCHANGED <<parseVars, pc, i, ret, exit_status, shell_fds, shell_std,
                 pipe_data,
                 procs, nextPid, callVars,
                 g_foreground_pgid, intr, bg_sigint>>

\* End of input, a read error or the line "exit": shell_main returns.
ExitShell ==
  /\ pc = "prompt"
  /\ pc' = "exited"
  /\ UNCHANGED <<parseVars, i, ret, exit_status, shell_fds, shell_std,
                 pipe_data, procs,
                 nextPid, budget,
                 callVars, sigVars>>

\* pipe(pipe_fds[i]) succeeds.
PipeOk ==
  /\ pc = "pipes"
  /\ i < N - 1
  /\ shell_fds' = shell_fds \cup {<<Line, i, "r">>, <<Line, i, "w">>}
  /\ IF i + 1 < N - 1
       THEN i' = i + 1 /\ pc' = "pipes"
       ELSE i' = 0 /\ pc' = "launch"
  /\ UNCHANGED <<parseVars, ret, exit_status, shell_std, pipe_data, procs,
                 nextPid, budget,
                 callVars, sigVars>>

\* pipe(pipe_fds[i]) fails: free and return 1.
PipeFail ==
  /\ pc = "pipes"
  /\ i < N - 1
  /\ pc' = "ret"
  /\ ret' = 1
  /\ path' = "pipe"
  /\ UNCHANGED <<parseVars, i, pl, pids, exit_status, shell_fds, shell_std,
                 pipe_data,
                 procs, nextPid, budget,
                 waited, printed, launched, failed_at, sigVars>>

\* Wired with the pipe taking precedence over a redirection.
Wired_pipe_first(c) ==
  LET in == InputFd(c.line, c.idx)
      out == OutputFd(c.line, c.idx, c.n)
      rin == IF c.cmd.input_file THEN InFile ELSE c.stdin
      rout == IF c.cmd.output_file THEN OutFile(c.cmd.append_output) ELSE c.stdout
  IN  [c EXCEPT
         !.fds = @ \ (in \cup out),
         !.stdin = IF in # {} THEN CHOOSE d \in in : TRUE ELSE rin,
         !.stdout = IF out # {} THEN CHOOSE d \in out : TRUE ELSE rout]

\* The child's descriptors after the two pipe dup2/close blocks and the two
\* redirection blocks, all succeeding.
Wired(c) ==
  LET in == InputFd(c.line, c.idx)
      out == OutputFd(c.line, c.idx, c.n)
      pin == IF in # {} THEN CHOOSE d \in in : TRUE ELSE c.stdin
      pout == IF out # {} THEN CHOOSE d \in out : TRUE ELSE c.stdout
  IN  [c EXCEPT
         !.fds = @ \ (in \cup out),
         !.stdin = IF c.cmd.input_file THEN InFile ELSE pin,
         !.stdout = IF c.cmd.output_file
                      THEN OutFile(c.cmd.append_output) ELSE pout]

\* StdAfterFork performing the dup2 calls whatever fork returned.
StdAfterFork_both(pid, std, c) == <<Wired(c).stdin, Wired(c).stdout, std[3]>>

\* Descriptors 0, 1, 2 of the process in which fork returned pid, std before
\* the call, once it is past the `if (pid == 0)` block of execute_command: the
\* dup2 calls onto 0 and 1 are inside the block, nothing touches 2.  c is the
\* record of the command being launched.
StdAfterFork(pid, std, c) ==
  IF pid = 0 THEN <<Wired(c).stdin, Wired(c).stdout, std[3]>> ELSE std

\* The child execute_command forks for command idx: it inherits every
\* descriptor the shell holds, the shell's process group, handler and cell.
NewChild(idx) ==
  [idx |-> idx, n |-> N, line |-> Line, cmd |-> pl[idx + 1],
   bg |-> Background, pgid |-> ShellPgid, fgcopy |-> g_foreground_pgid,
   stage |-> "forked", status |-> <<"none", 0, "">>, fds |-> shell_fds,
   stdin |-> shell_std[1], stdout |-> shell_std[2]]

\* Where the loop over the commands goes after command idx was launched.
AfterLaunch(idx) ==
  IF idx + 1 < N THEN "launch" ELSE IF Background THEN "bg" ELSE "wait"

\* execute_command forks command i; back in the parent, pids[i] is stored and
\* the parent closes input_fd and output_fd.
LaunchOk ==
  /\ pc = "launch"
  /\ i < N
  /\ pl[i + 1].argv
  /\ procs' = [p \in DOMAIN procs \cup {nextPid} |->
                 IF p = nextPid THEN NewChild(i) ELSE procs[p]]
  /\ nextPid' = nextPid + 1
  /\ pids' = Append(pids, nextPid)
  /\ launched' = launched \cup {i}
  /\ shell_fds' = shell_fds \ (InputFd(Line, i) \cup OutputFd(Line, i, N))
  /\ shell_std' = StdAfterFork(nextPid, shell_std, NewChild(i))
  /\ IF ~pl[i + 1].background /\ i = 0
       THEN pc' = "setfg" /\ i' = i
       ELSE /\ pc' = AfterLaunch(i)
            /\ i' = IF i + 1 < N THEN i + 1 ELSE 0
  /\ UNCHANGED <<parseVars, pl, ret, exit_status, pipe_data, budget, waited, printed,
                 failed_at, path, sigVars>>

\* execute_command returns -1: the command has no argv[0], or fork fails.
LaunchFail ==
  /\ pc = "launch"
  /\ i < N
  /\ pc' = "cleanup"
  /\ failed_at' = i
  /\ path' = "launch"
  /\ i' = 0
  /\ UNCHANGED <<parseVars, pl, pids, ret, exit_status, shell_fds, shell_std,
                 pipe_data,
                 procs, nextPid, budget,
                 waited, printed, launched, sigVars>>

\* g_foreground_pgid = pid;
SetForeground ==
  /\ pc = "setfg"
  /\ g_foreground_pgid' = pids[i + 1]
  /\ pc' = "setpgid"
  /\ UNCHANGED <<parseVars, i, ret, exit_status, shell_fds, shell_std,
                 pipe_data, procs,
                 nextPid, budget,
                 callVars, g_interrupted, intr, bg_sigint>>

\* setpgid(pid, pid) in the parent: moves the child unless it has already
\* called execvp (EACCES) or is gone.
ParentSetpgid ==
  /\ pc = "setpgid"
  /\ LET pid == pids[i + 1]
     IN  procs' = IF PreExec(pid)
                    THEN [procs EXCEPT ![pid].pgid = pid]
                    ELSE procs
  /\ pc' = AfterLaunch(i)
  /\ i' = IF i + 1 < N THEN i + 1 ELSE 0
  /\ UNCHANGED <<parseVars, ret, exit_status, shell_fds, shell_std, pipe_data,
                 nextPid,
                 budget, callVars,
                 sigVars>>

\* waitpid(pids[i], &status, 0) returns in the foreground wait loop.
WaitChild ==
  /\ pc = "wait"
  /\ i < N
  /\ LET pid == pids[i + 1]
     IN  /\ procs[pid].stage = "zombie"
         /\ waited' = Append(waited, [pid |-> pid,
                                     status |-> Status(procs[pid])])
         /\ ret' = IF i = N - 1 THEN WaitStatus(Status(procs[pid])) ELSE ret
         /\ procs' = Reap(pid)
  /\ i' = i + 1
  /\ pc' = IF i + 1 < N THEN "wait" ELSE "clear"
  /\ UNCHANGED <<parseVars, pl, pids, exit_status, shell_fds, shell_std,
                 pipe_data,
                 nextPid, budget, printed,
                 launched, failed_at, path, sigVars>>

\* g_foreground_pgid = 0; after the wait loop, then return exit_status.
ClearForeground ==
  /\ pc = "clear"
  /\ g_foreground_pgid' = 0
  /\ pc' = "ret"
  /\ path' = "foreground"
  /\ UNCHANGED <<parseVars, i, pl, pids, ret, exit_status, shell_fds,
                 shell_std, pipe_data, procs, nextPid,
                 budget, waited, printed, launched, failed_at, g_interrupted,
                 intr, bg_sigint>>

\* BackgroundPid naming the first child instead of the last.
BackgroundPid_first == pids[1]

\* The pid the background branch prints in brackets.
BackgroundPid == pids[N]

\* Background branch: print the pid, clear the cell, return 0.
BackgroundDone ==
  /\ pc = "bg"
  /\ printed' = BackgroundPid
  /\ g_foreground_pgid' = 0
  /\ pc' = "ret"
  /\ path' = "background"
  /\ UNCHANGED <<parseVars, i, pl, pids, ret, exit_status, shell_fds,
                 shell_std, pipe_data, procs, nextPid,
                 budget, waited, launched, failed_at, g_interrupted,
                 intr, bg_sigint>>

\* CleanupDone with the loop stopping one child early.
CleanupDone_short == i >= Len(pids) - 1

\* The cleanup loop "for (j = 0; j < i; j++)" has run to its end.
CleanupDone == i = Len(pids)

\* waitpid(pids[j], NULL, 0) returns in the cleanup loop.
CleanupWait ==
  /\ pc = "cleanup"
  /\ ~CleanupDone
  /\ LET pid == pids[i + 1]
     IN  /\ procs[pid].stage = "zombie"
         /\ waited' = Append(waited, [pid |-> pid,
                                     status |-> Status(procs[pid])])
         /\ procs' = Reap(pid)
  /\ i' = i + 1
  /\ UNCHANGED <<parseVars, pc, pl, pids, ret, exit_status, shell_fds,
                 shell_std, pipe_data, nextPid, budget,
                 printed, launched, failed_at, path, sigVars>>

\* CleanupReturn reporting success.
CleanupReturn_zero ==
  /\ pc = "cleanup"
  /\ CleanupDone
  /\ ret' = 0
  /\ pc' = "ret"
  /\ UNCHANGED <<parseVars, i, exit_status, shell_fds, shell_std, pipe_data,
                 procs,
                 nextPid, budget, callVars,
                 sigVars>>

\* After the cleanup loop: free and return 1.
CleanupReturn ==
  /\ pc = "cleanup"
  /\ CleanupDone
  /\ ret' = 1
  /\ pc' = "ret"
  /\ UNCHANGED <<parseVars, i, exit_status, shell_fds, shell_std, pipe_data,
                 procs,
                 nextPid, budget, callVars,
                 sigVars>>

\* The children a background pipeline leaves behind have started their
\* programs (or failed to) by the time the user has typed the next line.
Settled == \A p \in DOMAIN procs : procs[p].stage \in {"running", "zombie"}

\* Back in shell_main: exit_status = execute_pipeline(...); free_pipeline;
\* clear g_interrupted (twice: after the call and at the top of the loop).
Return ==
  /\ pc = "ret"
  /\ Settled
  /\ exit_status' = ret
  /\ pc' = "prompt"
  /\ pl' = <<>>
  /\ pids' = <<>>
  /\ i' = 0
  /\ ret' = 0
  /\ waited' = <<>>
  /\ printed' = 0
  /\ launched' = {}
  /\ failed_at' = -1
  /\ path' = ""
  /\ intr' = FALSE
  /\ g_interrupted' = 0
  /\ budget' = [budget EXCEPT !.lines = @ - 1]
  /\ procs' = [p \in {q \in DOMAIN procs : procs[q].stage # "zombie"} |->
                 procs[p]]
  /\ pipeline' = free_pipeline(pipeline, heap).pipeline
  /\ heap' = free_pipeline(pipeline, heap).heap
  /\ UNCHANGED <<line, ppc, tokens, result, shell_fds, shell_std, pipe_data,
                 nextPid,
                 g_foreground_pgid, bg_sigint>>

----------------------------------------------------------------------------
\* The child side of execute_command, and the programs.

\* The table with child p replaced by record c.
With(p, c) == Forget([procs EXCEPT ![p] = c])

\* if (!cmd->background) setpgid(0, 0);
ChildSetpgid(p) ==
  /\ pc # "exited"
  /\ ~Detached(procs[p])
  /\ procs[p].stage = "forked"
  /\ ~procs[p].cmd.background
  /\ procs' = With(p, [procs[p] EXCEPT !.pgid = p, !.stage = "grouped"])
  /\ UNCHANGED <<parseVars, pc, i, ret, exit_status, shell_fds, shell_std,
                 pipe_data,
                 nextPid, budget, callVars,
                 sigVars>>

\* The child is past the setpgid statement.
ReadyToWire(c) ==
  \/ c.stage = "grouped"
  \/ c.stage = "forked" /\ c.cmd.background

\* The child has a dup2 or an open to do before execvp.
HasSetup(c) == c.idx > 0 \/ c.idx < c.n - 1 \/ HasRedir(c.cmd)

\* Wiring succeeds and execvp replaces the image: the program runs, with the
\* default disposition for SIGINT.
ChildExec(p) ==
  /\ pc # "exited"
  /\ ~Detached(procs[p])
  /\ ReadyToWire(procs[p])
  /\ procs' = With(p, [Wired(procs[p]) EXCEPT !.stage = "running"])
  /\ UNCHANGED <<parseVars, pc, i, ret, exit_status, shell_fds, shell_std,
                 pipe_data,
                 nextPid, budget, callVars,
                 sigVars>>

\* ChildSetupFail exiting with the exec-failure code.
ChildSetupFail_127(p) ==
  /\ pc # "exited"
  /\ ~Detached(procs[p])
  /\ ReadyToWire(procs[p])
  /\ HasSetup(procs[p])
  /\ procs' = With(p, Dead(procs[p], <<"exit", 127, "setup">>))
  /\ UNCHANGED <<parseVars, pc, i, ret, exit_status, shell_fds, shell_std,
                 pipe_data,
                 nextPid, budget,
                 callVars, sigVars>>

\* A dup2 or a redirection open fails: exit(1).
ChildSetupFail(p) ==
  /\ pc # "exited"
  /\ ~Detached(procs[p])
  /\ ReadyToWire(procs[p])
  /\ HasSetup(procs[p])
  /\ procs' = With(p, Dead(procs[p], <<"exit", 1, "setup">>))
  /\ UNCHANGED <<parseVars, pc, i, ret, exit_status, shell_fds, shell_std,
                 pipe_data,
                 nextPid, budget, callVars,
                 sigVars>>

\* execvp fails: exit(127).
ChildExecFail(p) ==
  /\ pc # "exited"
  /\ ~Detached(procs[p])
  /\ ReadyToWire(procs[p])
  /\ procs' = With(p, Dead(procs[p], <<"exit", 127, "exec">>))
  /\ UNCHANGED <<parseVars, pc, i, ret, exit_status, shell_fds, shell_std,
                 pipe_data,
                 nextPid, budget, callVars,
                 sigVars>>

\* Exit codes of the programs, and a signal other than SIGINT (SIGTERM) that
\* something outside the shell may send to a program.
ExitCodes == {0, 1}
OtherSignals == {15}

\* The program exits.
ProgExit(p) ==
  /\ pc # "exited"
  /\ ~Detached(procs[p])
  /\ procs[p].stage = "running"
  /\ \E code \in ExitCodes : procs' = With(p, Dead(procs[p], <<"exit", code, "program">>))
  /\ UNCHANGED <<parseVars, pc, i, ret, exit_status, shell_fds, shell_std,
                 pipe_data,
                 nextPid, budget, callVars,
                 sigVars>>

\* The program is killed by a signal sent from outside the shell.
ProgSignaled(p) ==
  /\ pc # "exited"
  /\ ~Detached(procs[p])
  /\ procs[p].stage = "running"
  /\ \E sig \in OtherSignals : procs' = With(p, Dead(procs[p], <<"sig", sig, "signal">>))
  /\ UNCHANGED <<parseVars, pc, i, ret, exit_status, shell_fds, shell_std,
                 pipe_data,
                 nextPid, budget, callVars,
                 sigVars>>

----------------------------------------------------------------------------
\* The terminal and the SIGINT handler.

\* Every command of the foreground pipeline is launched and its program runs.
ProgramsRunning ==
  /\ pc = "wait"
  /\ ~Background
  /\ \A j \in (i + 1)..N : procs[pids[j]].stage = "running"

\* The children Ctrl+C reaches directly: the terminal sends SIGINT to its
\* foreground process group, which is the shell's own group (the shell never
\* calls tcsetpgrp).
TtyTargets == Reached(procs, Group(procs, ShellPgid))

\* The children sigint_handler's kill(-g_foreground_pgid, SIGINT) reaches,
\* in the table t the handler finds.
HandlerTargets(t) ==
  IF g_foreground_pgid > 0
    THEN Reached(t, Group(t, g_foreground_pgid))
    ELSE {}

\* Ctrl+C at the terminal: SIGINT goes to the shell's process group; in the
\* shell process sigint_handler runs.
CtrlC ==
  /\ pc # "exited"
  /\ budget.sigints > 0
  /\ budget' = [budget EXCEPT !.sigints = @ - 1]
  /\ g_interrupted' = 1
  /\ LET t1 == Deliver(procs, TtyTargets)
         hit == TtyTargets \cup HandlerTargets(t1)
     IN  /\ procs' = Forget(Deliver(t1, HandlerTargets(t1)))
         /\ bg_sigint' = (bg_sigint \/ \E p \in hit : procs[p].bg)
  /\ intr' = (intr \/ ProgramsRunning)
  /\ UNCHANGED <<parseVars, pc, i, ret, exit_status, shell_fds, shell_std,
                 pipe_data,
                 nextPid, callVars,
                 g_foreground_pgid>>

----------------------------------------------------------------------------
Next ==
  \/ ReadLine
  \/ AllocFail
  \/ SkipLine
  \/ ExitShell
  \/ PipeOk
  \/ PipeFail
  \/ LaunchOk
  \/ LaunchFail
  \/ SetForeground
  \/ ParentSetpgid
  \/ WaitChild
  \/ ClearForeground
  \/ BackgroundDone
  \/ CleanupWait
  \/ CleanupReturn
  \/ Return
  \/ CtrlC
  \/ \E p \in DOMAIN procs : ChildSetpgid(p)
  \/ \E p \in DOMAIN procs : ChildExec(p)
  \/ \E p \in DOMAIN procs : ChildSetupFail(p)
  \/ \E p \in DOMAIN procs : ChildExecFail(p)
  \/ \E p \in DOMAIN procs : ProgExit(p)
  \/ \E p \in DOMAIN procs : ProgSignaled(p)

Spec == Init /\ [][Next]_vars

\* The same shell with nobody pressing Ctrl+C.
NextQuiet ==
  \/ ReadLine
  \/ AllocFail
  \/ SkipLine
  \/ ExitShell
  \/ PipeOk
  \/ PipeFail
  \/ LaunchOk
  \/ LaunchFail
  \/ SetForeground
  \/ ParentSetpgid
  \/ WaitChild
  \/ ClearForeground
  \/ BackgroundDone
  \/ CleanupWait
  \/ CleanupReturn
  \/ Return
  \/ \E p \in DOMAIN procs : ChildSetpgid(p)
  \/ \E p \in DOMAIN procs : ChildExec(p)
  \/ \E p \in DOMAIN procs : ChildSetupFail(p)
  \/ \E p \in DOMAIN procs : ChildExecFail(p)
  \/ \E p \in DOMAIN procs : ProgExit(p)
  \/ \E p \in DOMAIN procs : ProgSignaled(p)

\* One line of up to MaxCmds + 1 commands, without redirections.
InitLong ==
  /\ Start([lines |-> 1, sigints |-> 0, cmds |-> MaxCmds + 1, redirs |-> 0])
  /\ ParseIdle

SpecLong == InitLong /\ [][NextQuiet]_vars

\* One line of up to MaxCmds commands, any of which may have redirections.
InitIO ==
  /\ Start([lines |-> 1, sigints |-> 0, cmds |-> MaxCmds, redirs |-> MaxCmds])
  /\ ParseIdle

SpecIO == InitIO /\ [][NextQuiet]_vars

----------------------------------------------------------------------------
\* Programs that use their pipes.  A pipe is a kernel buffer of fixed size: a
\* write blocks while the buffer is full, and a write to a pipe whose read end
\* nobody holds open raises SIGPIPE (docs/05, docs/07).

\* The size of a pipe buffer, and what a program whose standard output is a
\* pipe writes before it exits: more than the buffer holds.
PipeCap == 1
MaxWrite == PipeCap + 1

SIGPIPE == 13

IsPipe(d) == d[3] \in {"r", "w"}
PipeOf(d) == <<d[1], d[2]>>

\* The bytes buffered in pipe id and the bytes written to it so far.
Data(id) ==
  IF id \in DOMAIN pipe_data THEN pipe_data[id] ELSE [level |-> 0, written |-> 0]

Store(id, v) ==
  [x \in DOMAIN pipe_data \cup {id} |-> IF x = id THEN v ELSE pipe_data[x]]

\* The read end of pipe id is open somewhere: in the shell, or in a child
\* that has not terminated, as a descriptor it inherited or as its stdin.
ReadEndOpen(id) ==
  LET d == <<id[1], id[2], "r">>
  IN  \/ d \in shell_fds
      \/ \E p \in DOMAIN procs :
           /\ procs[p].stage # "zombie"
           /\ d \in procs[p].fds \/ procs[p].stdin = d

\* The program of child c has bytes left to write to the pipe on its stdout.
Writing(c) == IsPipe(c.stdout) /\ Data(PipeOf(c.stdout)).written < MaxWrite

\* write(1, ...) by a program whose stdout is a pipe: SIGPIPE if the pipe has
\* no reader, one more byte buffered if there is room; otherwise the call
\* blocks.
ProgWrite(p) ==
  /\ pc # "exited"
  /\ ~Detached(procs[p])
  /\ procs[p].stage = "running"
  /\ Writing(procs[p])
  /\ LET id == PipeOf(procs[p].stdout)
     IN  IF ~ReadEndOpen(id)
           THEN /\ procs' = With(p, Dead(procs[p], <<"sig", SIGPIPE, "signal">>))
                /\ pipe_data' = pipe_data
           ELSE /\ Data(id).level < PipeCap
                /\ pipe_data' = Store(id, [level |-> Data(id).level + 1,
                                           written |-> Data(id).written + 1])
                /\ procs' = procs
  /\ UNCHANGED <<parseVars, pc, i, ret, exit_status, shell_fds, shell_std,
                 nextPid, budget, callVars, sigVars>>

\* read(0, ...) by a program whose stdin is a pipe that holds data.
ProgRead(p) ==
  /\ pc # "exited"
  /\ ~Detached(procs[p])
  /\ procs[p].stage = "running"
  /\ IsPipe(procs[p].stdin)
  /\ LET id == PipeOf(procs[p].stdin)
     IN  /\ Data(id).level > 0
         /\ pipe_data' = Store(id, [Data(id) EXCEPT !.level = @ - 1])
  /\ UNCHANGED <<parseVars, pc, i, ret, exit_status, shell_fds, shell_std,
                 procs, nextPid, budget, callVars, sigVars>>

\* A program with nothing left to write exits, whether or not it has read
\* its input to the end.
ProgFinish(p) ==
  /\ ~Writing(procs[p])
  /\ ProgExit(p)

NextLive ==
  \/ ReadLine
  \/ AllocFail
  \/ SkipLine
  \/ ExitShell
  \/ PipeOk
  \/ PipeFail
  \/ LaunchOk
  \/ LaunchFail
  \/ SetForeground
  \/ ParentSetpgid
  \/ WaitChild
  \/ ClearForeground
  \/ BackgroundDone
  \/ CleanupWait
  \/ CleanupReturn
  \/ Return
  \/ \E p \in DOMAIN procs : ChildSetpgid(p)
  \/ \E p \in DOMAIN procs : ChildExec(p)
  \/ \E p \in DOMAIN procs : ChildSetupFail(p)
  \/ \E p \in DOMAIN procs : ChildExecFail(p)
  \/ \E p \in DOMAIN procs : ProgWrite(p)
  \/ \E p \in DOMAIN procs : ProgRead(p)
  \/ \E p \in DOMAIN procs : ProgFinish(p)

\* The steps the shell process takes when no call fails: the scheduler runs
\* the shell whenever it is not blocked in waitpid.
ShellStep ==
  \/ PipeOk
  \/ LaunchOk
  \/ SetForeground
  \/ ParentSetpgid
  \/ WaitChild
  \/ ClearForeground
  \/ BackgroundDone
  \/ CleanupWait
  \/ CleanupReturn
  \/ Return

\* The steps of child p when no call fails: the scheduler runs every child
\* that is not blocked in read or write.
ChildStep(p) ==
  /\ p \in DOMAIN procs
  /\ \/ ChildSetpgid(p)
     \/ ChildExec(p)
     \/ ProgWrite(p)
     \/ ProgRead(p)
     \/ ProgFinish(p)

\* The pids the children of one line can have.
ChildPids == (ShellPgid + 1)..(ShellPgid + MaxCmds)

\* One line of up to MaxCmds commands with redirections, no signal, every
\* process scheduled fairly.
InitLive ==
  /\ Start([lines |-> 1, sigints |-> 0, cmds |-> MaxCmds, redirs |-> MaxCmds])
  /\ ParseIdle

SpecLive ==
  /\ InitLive
  /\ [][NextLive]_vars
  /\ WF_vars(ShellStep)
  /\ \A p \in ChildPids : WF_vars(ChildStep(p))

----------------------------------------------------------------------------
\* parse_command and its helpers tokenize and parse_tokens (src/src/parser.c).
\* A line and a token are sequences of one-character strings; a NULL string
\* pointer is the empty sequence (no token and no stored string is empty).

isspace(c) == c = " "

\* The lines parse_command is called with are made of up to MaxWords lexemes,
\* each followed by a blank or by nothing, after a prefix.
Lexemes == {<<"a">>, <<"|">>, <<"<">>, <<">">>, <<"&">>, <<"\"">>, <<"'">>}
Gaps == {<<>>, <<" ">>}
\* What a line may begin with before its lexemes; a prefix of k characters
\* leaves room for 2k lexemes less.
Prefixes == {<<>>, <<" ">>, <<"#">>, <<" ", "#">>}

RECURSIVE Flatten(_)
Flatten(ws) == IF ws = <<>> THEN <<>> ELSE Head(ws) \o Flatten(Tail(ws))

\* The line spelled by the lexemes and gaps w.
LineOf(w) == Flatten([k \in DOMAIN w |-> w[k][1] \o w[k][2]])

\* while (isspace(*token)) token++;
RECURSIVE SkipSpace(_, _)
SkipSpace(l, pos) ==
  IF pos <= Len(l) /\ isspace(l[pos]) THEN SkipSpace(l, pos + 1) ELSE pos

\* The loop with either quote character closing a quoted region.
RECURSIVE TokenEnd_any(_, _, _, _)
TokenEnd_any(l, pos, in_quotes, quote_char) ==
  IF pos > Len(l) THEN pos
  ELSE IF ~in_quotes /\ l[pos] \in {"\"", "'"}
    THEN TokenEnd_any(l, pos + 1, TRUE, l[pos])
  ELSE IF in_quotes /\ l[pos] \in {"\"", "'"}
    THEN TokenEnd_any(l, pos + 1, FALSE, quote_char)
  ELSE IF ~in_quotes /\ isspace(l[pos]) THEN pos
  ELSE TokenEnd_any(l, pos + 1, in_quotes, quote_char)

\* The "find end of token" loop of tokenize: the position it stops at, which
\* is an unquoted whitespace character or the end of the line.
RECURSIVE TokenEnd(_, _, _, _)
TokenEnd(l, pos, in_quotes, quote_char) ==
  IF pos > Len(l) THEN pos
  ELSE IF ~in_quotes /\ l[pos] \in {"\"", "'"}
    THEN TokenEnd(l, pos + 1, TRUE, l[pos])
  ELSE IF in_quotes /\ l[pos] = quote_char
    THEN TokenEnd(l, pos + 1, FALSE, quote_char)
  ELSE IF ~in_quotes /\ isspace(l[pos]) THEN pos
  ELSE TokenEnd(l, pos + 1, in_quotes, quote_char)

\* The pass storing the token with its quote characters dropped.
TokenStep_unquoted(l, st) ==
  LET start == SkipSpace(l, st.pos)
      end == TokenEnd(l, start, FALSE, "")
  IN  IF start > Len(l) THEN [st EXCEPT !.pos = start, !.done = TRUE]
      ELSE [pos |-> IF end <= Len(l) THEN end + 1 ELSE end,
            toks |-> Append(st.toks,
                            SelectSeq(SubSeq(l, start, end - 1),
                                      LAMBDA c : c \notin {"\"", "'"})),
            done |-> FALSE]

\* One pass through the body of the outer loop of tokenize: st holds the
\* position of the scan, the tokens collected, and whether the loop has left
\* through "break".
TokenStep(l, st) ==
  LET start == SkipSpace(l, st.pos)
      end == TokenEnd(l, start, FALSE, "")
  IN  IF start > Len(l) THEN [st EXCEPT !.pos = start, !.done = TRUE]
      ELSE [pos |-> IF end <= Len(l) THEN end + 1 ELSE end,
            toks |-> Append(st.toks, SubSeq(l, start, end - 1)),
            done |-> FALSE]

\* The outer loop "while (count < max_tokens - 1)" of tokenize, run from st
\* for at most m passes: the first half of the passes, then the rest.
RECURSIVE TokenLoop(_, _, _, _)
TokenLoop(l, st, m, max_tokens) ==
  IF m = 0 \/ st.done \/ Len(st.toks) >= max_tokens - 1 THEN st
  ELSE IF m = 1 THEN TokenStep(l, st)
  ELSE TokenLoop(l, TokenLoop(l, st, m \div 2, max_tokens), m - (m \div 2),
                 max_tokens)

\* Every pass but the last adds a token, so max_tokens passes are all of them.
tokenize(l, max_tokens) ==
  TokenLoop(l, [pos |-> 1, toks |-> <<>>, done |-> FALSE], max_tokens,
            max_tokens).toks

\* The strings parse_tokens compares tokens with.
Pipe == <<"|">>
Lt == <<"<">>
Gt == <<">">>
GtGt == <<">", ">">>
Amp == <<"&">>

\* A command_t as calloc leaves it.  has_argv tells a NULL argv from an
\* argument vector whose first entry is the NULL terminator.
NullCmd ==
  [has_argv |-> FALSE, argv |-> <<>>, input_file |-> <<>>, output_file |-> <<>>,
   append_output |-> FALSE, background |-> FALSE]

\* pipeline_t with commands = NULL and num_commands = 0.
NoPipeline == [commands |-> <<>>, num_commands |-> 0]

\* The inner loop of parse_tokens for one command, from token t (1-based) on:
\* ok is FALSE where the code does "goto error".  A redirection file name is
\* a new strdup each time; the pointer it replaces is not freed.
RECURSIVE CollectArgs(_, _, _, _, _, _)
CollectArgs(toks, t, cmd, argv, is_last, hp) ==
  IF t > Len(toks)
    THEN [ok |-> TRUE, cmd |-> cmd, argv |-> argv, t |-> t, heap |-> hp]
  ELSE IF toks[t] = Pipe
    THEN [ok |-> TRUE, cmd |-> cmd, argv |-> argv, t |-> t + 1, heap |-> hp]
  ELSE IF toks[t] \in {Lt, Gt, GtGt}
    THEN IF t + 1 > Len(toks)
           THEN [ok |-> FALSE, cmd |-> cmd, argv |-> argv, t |-> t + 1,
                 heap |-> hp]
           ELSE CollectArgs(toks, t + 2,
                  IF toks[t] = Lt
                    THEN [cmd EXCEPT !.input_file = toks[t + 1]]
                    ELSE [cmd EXCEPT !.output_file = toks[t + 1],
                                     !.append_output = (toks[t] = GtGt)],
                  argv, is_last, Alloc(hp, "file", 1))
  ELSE IF toks[t] = Amp
    THEN [ok |-> TRUE,
          cmd |-> IF is_last THEN [cmd EXCEPT !.background = TRUE] ELSE cmd,
          argv |-> argv, t |-> t + 1, heap |-> hp]
  ELSE IF Len(argv) >= MAX_TOKENS - 1
    THEN [ok |-> FALSE, cmd |-> cmd, argv |-> argv, t |-> t, heap |-> hp]
  ELSE CollectArgs(toks, t + 1, cmd, Append(argv, toks[t]), is_last,
                   Alloc(hp, "arg", 1))

\* The outer loop taking every command for the last one.
RECURSIVE FillCommands_every(_, _, _, _, _)
FillCommands_every(toks, t, cmds, cmd_idx, hp) ==
  IF cmd_idx < Len(cmds) /\ t <= Len(toks)
    THEN LET r == CollectArgs(toks, t, NullCmd, <<>>, TRUE,
                              Alloc(hp, "argv", 1))
         IN  IF r.ok
               THEN FillCommands_every(toks, r.t,
                      [cmds EXCEPT ![cmd_idx + 1] =
                         [r.cmd EXCEPT !.argv = r.argv, !.has_argv = TRUE]],
                      cmd_idx + 1, r.heap)
               ELSE [ok |-> FALSE,
                     commands |-> [cmds EXCEPT ![cmd_idx + 1] = r.cmd],
                     heap |-> r.heap]
    ELSE [ok |-> TRUE, commands |-> cmds, heap |-> hp]

\* The outer loop of parse_tokens: "while (cmd_idx < num_commands &&
\* tokens[token_idx])", cmd_idx counting from 0.  At "goto error" the command
\* being filled has its file names in the array but its argv still NULL.
RECURSIVE FillCommands(_, _, _, _, _)
FillCommands(toks, t, cmds, cmd_idx, hp) ==
  IF cmd_idx < Len(cmds) /\ t <= Len(toks)
    THEN LET r == CollectArgs(toks, t, NullCmd, <<>>, cmd_idx = Len(cmds) - 1,
                              Alloc(hp, "argv", 1))
         IN  IF r.ok
               THEN FillCommands(toks, r.t,
                      [cmds EXCEPT ![cmd_idx + 1] =
                         [r.cmd EXCEPT !.argv = r.argv, !.has_argv = TRUE]],
                      cmd_idx + 1, r.heap)
               ELSE [ok |-> FALSE,
                     commands |-> [cmds EXCEPT ![cmd_idx + 1] = r.cmd],
                     heap |-> r.heap]
    ELSE [ok |-> TRUE, commands |-> cmds, heap |-> hp]

\* parse_tokens: its return value, the pipeline it leaves, and the hp it
\* leaves when called with the heap hp.
parse_tokens(toks, hp) ==
  IF toks = <<>> THEN [result |-> -1, pipeline |-> NoPipeline, heap |-> hp]
  ELSE
    LET num_commands == 1 + Cardinality({t \in 1..Len(toks) : toks[t] = Pipe})
        r == FillCommands(toks, 1, [k \in 1..num_commands |-> NullCmd], 0,
                          Alloc(hp, "commands", 1))
        filled == [commands |-> r.commands, num_commands |-> num_commands]
    IN  IF num_commands > MAX_PIPES
          THEN [result |-> -1, pipeline |-> NoPipeline, heap |-> hp]
        ELSE IF r.ok
          THEN [result |-> 0, pipeline |-> filled, heap |-> r.heap]
          ELSE [result |-> -1,
                pipeline |-> free_pipeline(filled, r.heap).pipeline,
                heap |-> free_pipeline(filled, r.heap).heap]

\* The test without its comment case.
Blank_space(l) ==
  LET p == SkipSpace(l, 1) IN p > Len(l)

\* "Skip empty lines and comments": the test of parse_command.
Blank(l) ==
  LET p == SkipSpace(l, 1) IN IF p > Len(l) THEN TRUE ELSE l[p] = "#"

\* parse_command returns 0 at once for an empty line or a comment.
ParseSkip ==
  /\ ppc = "call"
  /\ Blank(line)
  /\ ppc' = "done"
  /\ result' = 0
  /\ pipeline' = NoPipeline
  /\ UNCHANGED <<line, tokens, heap, pc, i, ret, exit_status, shell_fds,
                 shell_std, pipe_data, procs,
                 nextPid, budget, callVars, sigVars>>

\* calloc of the token array fails, or strdup of the line in tokenize fails
\* and the token array is freed again.
ParseNoMemory ==
  /\ ppc = "call"
  /\ ~Blank(line)
  /\ ppc' = "done"
  /\ result' = -1
  /\ pipeline' = NoPipeline
  /\ UNCHANGED <<line, tokens, heap, pc, i, ret, exit_status, shell_fds,
                 shell_std, pipe_data, procs,
                 nextPid, budget, callVars, sigVars>>

\* tokens = calloc(...); token_count = tokenize(line, tokens, MAX_TOKENS);
\* the copy of the line tokenize works on is freed before it returns.
Tokenize ==
  /\ ppc = "call"
  /\ ~Blank(line)
  /\ tokens' = tokenize(line, MAX_TOKENS)
  /\ heap' = Alloc(Alloc(heap, "tokens", 1), "token", Len(tokens'))
  /\ ppc' = "tokens"
  /\ pipeline' = NoPipeline
  /\ UNCHANGED <<line, result, pc, i, ret, exit_status, shell_fds, shell_std,
                 pipe_data,
                 procs,
                 nextPid, budget, callVars, sigVars>>

\* result = parse_tokens(tokens, pipeline); free_tokens(tokens); return.
ParseTokens ==
  /\ ppc = "tokens"
  /\ LET r == parse_tokens(tokens, heap)
     IN  /\ result' = r.result
         /\ pipeline' = r.pipeline
         /\ heap' = Free(Free(r.heap, "token", Len(tokens)), "tokens", 1)
  /\ ppc' = "done"
  /\ UNCHANGED <<line, tokens, pc, i, ret, exit_status, shell_fds, shell_std,
                 pipe_data,
                 procs,
                 nextPid, budget, callVars, sigVars>>

\* free_pipeline(&pipeline) after parse_command has returned, and once more
\* on the structure that call left.
FreePipeline ==
  /\ ppc \in {"done", "freed"}
  /\ ppc' = IF ppc = "done" THEN "freed" ELSE "again"
  /\ LET r == free_pipeline(pipeline, heap)
     IN  pipeline' = r.pipeline /\ heap' = r.heap
  /\ UNCHANGED <<line, tokens, result, pc, i, ret, exit_status, shell_fds,
                 shell_std, pipe_data,
                 procs, nextPid, budget, callVars, sigVars>>

\* free_pipeline(NULL) after parse_command has returned: "if (!pipeline)
\* return;".
FreePipelineNull ==
  /\ ppc = "done"
  /\ ppc' = "null"
  /\ UNCHANGED <<line, tokens, result, pipeline, heap, pc, i, ret,
                 exit_status, shell_fds, shell_std, pipe_data, procs, nextPid,
                 budget,
                 callVars,
                 sigVars>>

NextParse ==
  \/ ParseSkip
  \/ ParseNoMemory
  \/ Tokenize
  \/ ParseTokens

\* One call of parse_command, on any of the lines.
InitParse ==
  /\ Start([lines |-> 0, sigints |-> 0, cmds |-> 0, redirs |-> 0])
  /\ \E pre \in Prefixes : \E n \in 0..(MaxWords - 2 * Len(pre)) :
       \E w \in [1..n -> Lexemes \X Gaps] : line = pre \o LineOf(w)
  /\ ppc = "call"
  /\ tokens = <<>>
  /\ pipeline = NoPipeline
  /\ result = 0
  /\ heap = NoHeap

SpecParse == InitParse /\ [][NextParse]_vars

\* One call of parse_command on any of the lines, and free_pipeline after it.
NextFree ==
  \/ NextParse
  \/ FreePipeline
  \/ FreePipelineNull

SpecFree == InitParse /\ [][NextFree]_vars

\* The line of n commands, each of k words "a", with " | " between the
\* commands: a command and its separator take 2 * k + 2 characters.
LimitLine(n, k) ==
  [p \in 1..(IF n = 0 THEN 0 ELSE n * (2 * k + 2) - 3) |->
     LET q == (p - 1) % (2 * k + 2)
     IN  IF q = 2 * k THEN "|" ELSE IF q < 2 * k - 1 /\ q % 2 = 0 THEN "a" ELSE " "]

\* One call of parse_command, on a line of up to MAX_PIPES + 1 commands.
InitLimit ==
  /\ Start([lines |-> 0, sigints |-> 0, cmds |-> 0, redirs |-> 0])
  /\ \E n \in 0..(MAX_PIPES + 1) : \E k \in 1..MaxArgs : line = LimitLine(n, k)
  /\ ppc = "call"
  /\ tokens = <<>>
  /\ pipeline = NoPipeline
  /\ result = 0
  /\ heap = NoHeap

SpecLimit == InitLimit /\ [][NextParse]_vars

----------------------------------------------------------------------------
\* The loop of shell_main, from the line fgets returns to execute_pipeline.

\* parse_command called with the heap hp, no allocation failing: its return
\* value, the pipeline and the heap it leaves, and the tokens it worked on.
parse_command(l, hp) ==
  IF Blank(l)
    THEN [result |-> 0, pipeline |-> NoPipeline, tokens |-> <<>>, heap |-> hp]
    ELSE LET toks == tokenize(l, MAX_TOKENS)
             r == parse_tokens(toks, Alloc(Alloc(hp, "tokens", 1), "token",
                                           Len(toks)))
         IN  [result |-> r.result, pipeline |-> r.pipeline, tokens |-> toks,
              heap |-> Free(Free(r.heap, "token", Len(toks)), "tokens", 1)]

\* The built-in command.
Exit == <<"e", "x", "i", "t">>

\* The lines typed at the prompt, the newline removed: empty, blank, a
\* comment, the built-in, commands, and a line that does not parse.
ReplLines ==
  {<<>>, <<" ">>, <<"#">>, Exit, <<"a">>, <<"a", " ", "|", " ", "a">>,
   <<"a", " ", "&">>, <<"<">>}

\* What execute_pipeline looks at in a command_t.
ShapeOf(c) ==
  [argv |-> c.has_argv /\ Len(c.argv) >= 1,
   input_file |-> c.input_file # <<>>,
   output_file |-> c.output_file # <<>>,
   append_output |-> c.append_output,
   background |-> c.background]

\* "continue" that also clears the status.
Continue_reset ==
  /\ pc' = "prompt"
  /\ budget' = [budget EXCEPT !.lines = @ - 1]
  /\ exit_status' = 0
  /\ UNCHANGED <<pl, i, ret, path>>

\* "continue": back to the top of the loop, the line used up.
Continue ==
  /\ pc' = "prompt"
  /\ budget' = [budget EXCEPT !.lines = @ - 1]
  /\ exit_status' = exit_status
  /\ UNCHANGED <<pl, i, ret, path>>

\* fgets returns line l.  An empty line continues and "exit" breaks before
\* parse_command is called; a parse error or an empty pipeline continues;
\* otherwise execute_pipeline is entered, where calloc succeeds or fails.
ReadParse ==
  /\ pc = "prompt"
  /\ budget.lines > 0
  /\ \E l \in ReplLines :
       LET r == parse_command(l, heap)
           called == l # <<>> /\ l # Exit
           p == [k \in 1..r.pipeline.num_commands |->
                   ShapeOf(r.pipeline.commands[k])]
       IN  /\ line' = l
           /\ IF called
                THEN /\ ppc' = "done"
                     /\ tokens' = r.tokens
                     /\ pipeline' = r.pipeline
                     /\ result' = r.result
                     /\ heap' = r.heap
                ELSE /\ ppc' = "unparsed"
                     /\ UNCHANGED <<tokens, pipeline, result, heap>>
           /\ IF l = Exit
                THEN /\ pc' = "exited"
                     /\ UNCHANGED <<pl, i, ret, path, budget, exit_status>>
                ELSE IF called /\ r.result = 0 /\ r.pipeline.num_commands > 0
                THEN /\ pl' = p
                     /\ i' = 0
                     /\ \E ok \in BOOLEAN :
                          IF ok
                            THEN /\ pc' = IF Len(p) > 1 THEN "pipes" ELSE "launch"
                                 /\ ret' = 0
                                 /\ path' = path
                            ELSE /\ pc' = "ret"
                                 /\ ret' = 1
                                 /\ path' = "alloc"
                     /\ UNCHANGED <<budget, exit_status>>
                ELSE Continue
  /\ g_interrupted' = 0
  /\ UNCHANGED <<pids, shell_fds, shell_std, pipe_data, procs, nextPid,
                 waited, printed,
                 launched,
                 failed_at, g_foreground_pgid, intr, bg_sigint>>

\* fgets returns NULL at end of input or on a read error: break.
ReplEof ==
  /\ pc = "prompt"
  /\ pc' = "exited"
  /\ ppc' = "eof"
  /\ g_interrupted' = 0
  /\ UNCHANGED <<line, tokens, pipeline, result, heap, pl, i, pids, ret,
                 exit_status, shell_fds, shell_std, pipe_data, procs, nextPid,
                 budget,
                 waited,
                 printed, launched, failed_at, path, g_foreground_pgid, intr,
                 bg_sigint>>

NextRepl ==
  \/ ReadParse
  \/ ReplEof
  \/ PipeOk
  \/ PipeFail
  \/ LaunchOk
  \/ LaunchFail
  \/ SetForeground
  \/ ParentSetpgid
  \/ WaitChild
  \/ ClearForeground
  \/ BackgroundDone
  \/ CleanupWait
  \/ CleanupReturn
  \/ Return
  \/ \E p \in DOMAIN procs : ChildSetpgid(p)
  \/ \E p \in DOMAIN procs : ChildExec(p)
  \/ \E p \in DOMAIN procs : ChildSetupFail(p)
  \/ \E p \in DOMAIN procs : ChildExecFail(p)
  \/ \E p \in DOMAIN procs : ProgExit(p)
  \/ \E p \in DOMAIN procs : ProgSignaled(p)

\* The shell reading up to MaxLines + 1 lines, nobody pressing Ctrl+C.
InitRepl ==
  /\ Start([lines |-> MaxLines + 1, sigints |-> 0, cmds |-> MaxCmds,
            redirs |-> 0])
  /\ ParseIdle

SpecRepl == InitRepl /\ [][NextRepl]_vars

----------------------------------------------------------------------------
\* Properties of execute_pipeline, the handler and the loop.

\* execute_pipeline is about to return from a foreground pipeline all of whose
\* commands were launched.
ForegroundReturn == pc = "ret" /\ ~Background /\ Len(pids) = N

\* The pids the waitpid calls of this execute_pipeline call returned for.
WaitedPids == [j \in 1..Len(waited) |-> waited[j].pid]

\* C1: a foreground pipeline all of whose commands were launched returns the
\* last command's status: its exit code if it exited, 128 + the signal number
\* if a signal killed it, whatever the statuses of the earlier commands and
\* the order in which the children terminated.
C1_LastStatus ==
  ForegroundReturn =>
    LET st == waited[N].status
    IN  /\ st[1] \in {"exit", "sig"}
        /\ st[1] = "exit" => ret = st[2]
        /\ st[1] = "sig" => ret = 128 + st[2]

\* C1 witness: a two-command foreground pipeline returns; its last command was
\* killed by a signal and its first command ended with another status.
C1_Witness ==
  /\ ForegroundReturn
  /\ N >= 2
  /\ waited[N].status[1] = "sig"
  /\ waited[1].status = <<"exit", 1>>
  /\ ret = 128 + waited[N].status[2]

\* C2: whenever execute_pipeline returns, and each time the loop is back at
\* the prompt, g_foreground_pgid is 0.
C2_CellZero == pc \in {"ret", "prompt"} => g_foreground_pgid = 0

\* C3: whenever execute_pipeline returns, and each time the loop is back at
\* the prompt, the shell holds no open pipe descriptor.
C3_NoPipeOpen == pc \in {"ret", "prompt"} => shell_fds = {}

\* C4: a child that has called execvp holds no pipe descriptor besides the ones
\* that are its stdin and its stdout.
C4_ChildPipeEnds ==
  \A p \in DOMAIN procs : procs[p].stage = "running" => procs[p].fds = {}

\* C5: when sigint_handler runs while the programs of a foreground pipeline of
\* two or more commands run, its kill reaches every live child of the pipeline.
C5_AllSignalled ==
  [][(budget'.sigints < budget.sigints /\ ProgramsRunning /\ N >= 2) =>
       \A j \in (i + 1)..N :
         pids[j] \in HandlerTargets(Deliver(procs, TtyTargets))]_vars

\* C6: a foreground pipeline during which the handler ran while its programs
\* were running returns 128 + SIGINT.
C6_InterruptStatus == (ForegroundReturn /\ intr) => ret = 128 + SIGINT

\* C7: no process launched by a background pipeline ever receives SIGINT
\* because of Ctrl+C, be it from the terminal or from the handler.
C7_BackgroundSpared == ~bg_sigint

\* C8: a background pipeline all of whose commands were launched returns 0
\* without having waited for any child, having printed the last child's pid.
C8_Background ==
  (pc = "ret" /\ Background /\ Len(pids) = N) =>
    /\ waited = <<>>
    /\ printed = pids[N]
    /\ ret = 0
    /\ \A j \in 1..N : pids[j] \in DOMAIN procs

\* C8 witness: a two-command background pipeline returns while none of its
\* children has terminated.
C8_Witness ==
  /\ pc = "ret"
  /\ Background
  /\ N >= 2
  /\ Len(pids) = N
  /\ \A j \in 1..N : pids[j] \in DOMAIN procs /\ procs[pids[j]].stage # "zombie"
  /\ ret = 0

\* C9: when execute_pipeline returns from a foreground pipeline, every child
\* it forked has been waited for exactly once and none is left unreaped.
C9_WaitedOnce ==
  (pc = "ret" /\ ~Background) =>
    /\ WaitedPids = pids
    /\ \A j \in 1..Len(pids) : pids[j] \notin DOMAIN procs

\* C9 witness: a foreground pipeline returns on the launch-failure path after
\* one child had been forked.
C9_Witness ==
  /\ pc = "ret"
  /\ ~Background
  /\ path = "launch"
  /\ Len(pids) = 1
  /\ WaitedPids = pids

\* C10: when the launch of command k fails, execute_pipeline has launched
\* commands 0..k-1 only, has waited for these k children, returns non-zero,
\* and the loop goes on to the next prompt with that status.
C10_LaunchFailure ==
  [][(pc = "ret" /\ path = "launch") =>
       /\ launched = 0..(failed_at - 1)
       /\ Len(pids) = failed_at
       /\ WaitedPids = pids
       /\ ret # 0
       /\ pc' # pc => (pc' = "prompt" /\ exit_status' = ret)]_vars

\* C10 witness: the second command of a two-command pipeline failed to launch
\* and execute_pipeline returns.
C10_Witness ==
  /\ pc = "ret"
  /\ path = "launch"
  /\ N = 2
  /\ failed_at = 1
  /\ launched = {0}
  /\ ret = 1

\* The 1-based positions of the middle commands whose execvp failed, as
\* waitpid reported them (no program of these runs exits with 127 itself).
MiddleExecFailed == {j \in 2..(N - 1) : waited[j].status = <<"exit", 127>>}

\* C11 as stated: a foreground pipeline of three or more commands whose middle
\* command's execvp failed returns a non-zero status, with every child
\* terminated and none left unreaped.
C11_NonZero ==
  (ForegroundReturn /\ N >= 3 /\ MiddleExecFailed # {}) =>
    /\ ret # 0
    /\ \A j \in 1..N : pids[j] \notin DOMAIN procs

\* C11 amended: such a pipeline returns the status of its last command, be it
\* zero or not; every child has terminated, has been waited for, and none is
\* left unreaped.
C11_LastReported ==
  (ForegroundReturn /\ N >= 3 /\ MiddleExecFailed # {}) =>
    /\ ret = (IF waited[N].status[1] = "exit" THEN 0 ELSE 128) + waited[N].status[2]
    /\ \A j \in 1..N : waited[j].pid = pids[j]
    /\ \A j \in 1..N : waited[j].status[1] \in {"exit", "sig"}
    /\ \A j \in 1..N : pids[j] \notin DOMAIN procs

\* C11 witness: cmd0 | cmd1 | cmd2 returns 0 although the execvp of cmd1
\* failed, the last command having exited with 0.
C11_Witness ==
  /\ ForegroundReturn
  /\ N = 3
  /\ waited[2].status = <<"exit", 127>>
  /\ waited[3].status = <<"exit", 0>>
  /\ ret = 0
  /\ DOMAIN procs = {}

\* Child pid has terminated (it is a zombie, or waitpid has reaped it).
Terminated(pid) == pid \notin DOMAIN procs \/ procs[pid].stage = "zombie"

\* The live processes other than the reader that hold descriptor d open, as
\* stdin, stdout or as a descriptor they inherited and never closed.
Holders(d) ==
  {p \in DOMAIN procs : procs[p].stage # "zombie" /\
     (d \in procs[p].fds \/ procs[p].stdout = d)}

\* C12: in a foreground pipeline whose commands have all been launched and
\* have all called execvp, once command k has terminated while command k + 1
\* reads from pipe k, nothing holds the write end of pipe k open any more, so
\* that command k + 1 reads end-of-input after the bytes command k wrote,
\* whichever other commands still run.
C12_EndOfInput ==
  (pc = "wait" /\ ~Background /\
     \A j \in 1..N : Terminated(pids[j]) \/ procs[pids[j]].stage = "running") =>
    \A k \in 0..(N - 2) :
      LET writer == pids[k + 1]
          reader == pids[k + 2]
      IN  (/\ Terminated(writer)
           /\ ~Terminated(reader)
           /\ procs[reader].stdin = <<Line, k, "r">>) =>
            /\ <<Line, k, "w">> \notin shell_fds
            /\ Holders(<<Line, k, "w">>) = {}

\* C13: an N-command pipeline has exactly N - 1 pipes when its first command is
\* launched; and every child that has called execvp has as stdin its
\* input_file if it has one, else the read end of pipe idx - 1, else (first
\* command) the terminal; and as stdout its output_file, opened for appending
\* or truncating as append_output says, if it has one, else the write end of
\* pipe idx, else (last command) the terminal.
C13_Wiring ==
  /\ (pc = "launch" /\ launched = {}) =>
       shell_fds = UNION {{<<Line, k, "r">>, <<Line, k, "w">>} : k \in 0..(N - 2)}
  /\ \A p \in DOMAIN procs :
       LET c == procs[p]
       IN  c.stage = "running" =>
             /\ c.stdin = IF c.cmd.input_file THEN <<0, 0, "file">>
                          ELSE IF c.idx = 0 THEN <<0, 0, "tty">>
                          ELSE <<c.line, c.idx - 1, "r">>
             /\ c.stdout = IF c.cmd.output_file /\ c.cmd.append_output
                             THEN <<0, 0, "append">>
                           ELSE IF c.cmd.output_file THEN <<0, 0, "trunc">>
                           ELSE IF c.idx = c.n - 1 THEN <<0, 0, "tty">>
                           ELSE <<c.line, c.idx, "w">>

\* C13 witness: in cmd0 >> f | cmd1 < g both programs run, the first writing
\* to f in append mode, the second reading g: neither uses the pipe.
C13_Witness ==
  /\ N = 2
  /\ Len(pids) = 2
  /\ \A j \in 1..2 : pids[j] \in DOMAIN procs /\ procs[pids[j]].stage = "running"
  /\ pl[1].output_file /\ pl[1].append_output
  /\ pl[2].input_file
  /\ procs[pids[1]].stdout = <<0, 0, "append">>
  /\ procs[pids[2]].stdin = <<0, 0, "file">>

\* C14: a child that ends because a dup2 or a redirection open failed has not
\* called execvp and exits with 1; a child that ends because execvp failed
\* exits with 127; and the wait of a single-command foreground pipeline whose
\* child ended so makes execute_pipeline return 1, respectively 127.
C14_FailureCodes ==
  [][\A p \in DOMAIN procs :
       LET c == procs[p]
           dies == c.stage # "zombie" /\ p \in DOMAIN procs' /\
                     procs'[p].stage = "zombie"
           reaped == c.stage = "zombie" /\ p \notin DOMAIN procs' /\
                       pc = "wait" /\ N = 1
       IN  /\ (dies /\ procs'[p].status[3] = "setup") =>
                 /\ c.stage \in {"forked", "grouped"}
                 /\ procs'[p].status[1] = "exit" /\ procs'[p].status[2] = 1
           /\ (dies /\ procs'[p].status[3] = "exec") =>
                 procs'[p].status[1] = "exit" /\ procs'[p].status[2] = 127
           /\ (reaped /\ c.status[3] = "setup") => (pc' = "clear" /\ ret' = 1)
           /\ (reaped /\ c.status[3] = "exec") => (pc' = "clear" /\ ret' = 127)]_vars

\* C14 witness: the only command of a foreground line has an input
\* redirection whose open failed; the child has exited with 1 before execvp
\* and the shell is about to wait for it.
C14_Witness ==
  /\ pc = "wait"
  /\ N = 1
  /\ ~Background
  /\ pl[1].input_file
  /\ pids[1] \in DOMAIN procs
  /\ procs[pids[1]].status = <<"exit", 1, "setup">>

----------------------------------------------------------------------------
\* Properties of parse_command.

\* parse_command has returned 0 with a non-empty pipeline.
ParsedOk == ppc = "done" /\ result = 0 /\ pipeline.num_commands >= 1

QuoteChars == {"\"", "'"}
OperatorChars == {"|", "<", ">", "&"}
Operators == {Pipe, Lt, Gt, GtGt, Amp}

\* The quote character of the quoted region position pos of l lies in, where
\* "" means none: a region opens at a quote character met outside any region
\* and closes at the next occurrence of the same character.
RECURSIVE QuoteBefore(_, _)
QuoteBefore(l, pos) ==
  IF pos = 1 THEN ""
  ELSE LET q == QuoteBefore(l, pos - 1)
           c == l[pos - 1]
       IN  IF q = "" THEN (IF c \in QuoteChars THEN c ELSE "")
           ELSE IF c = q THEN "" ELSE q

\* Position pos of l holds a character that opens or closes a quoted region.
Delimiter(l, pos) ==
  IF QuoteBefore(l, pos) = "" THEN l[pos] \in QuoteChars
  ELSE l[pos] = QuoteBefore(l, pos)

\* Position pos of l holds character ch outside every quoted region.
UnquotedAt(l, pos, ch) == l[pos] = ch /\ QuoteBefore(l, pos) = ""

\* The word w with the characters delimiting its quoted regions removed.
StripQuotes(w) ==
  LET keep == {p \in 1..Len(w) : ~Delimiter(w, p)}
      nth[k \in 0..Cardinality(keep)] ==
        IF k = 0 THEN 0 ELSE CHOOSE p \in keep : p > nth[k - 1] /\
                               \A q \in keep : q > nth[k - 1] => p <= q
  IN  [k \in 1..Cardinality(keep) |-> w[nth[k]]]

\* Every string the pipeline stores: arguments and redirection file names.
Stored ==
  UNION {{c.argv[j] : j \in 1..Len(c.argv)} \cup
         ({c.input_file, c.output_file} \ {<<>>}) :
           c \in {pipeline.commands[k] : k \in 1..pipeline.num_commands}}

\* C15: when parse_command succeeds with a non-empty pipeline, num_commands is
\* one plus the number of `|` characters of the line that lie outside quotes,
\* whether or not whitespace surrounds them.
C15_PipeCount ==
  ParsedOk =>
    pipeline.num_commands =
      1 + Cardinality({p \in 1..Len(line) : UnquotedAt(line, p, "|")})

\* C16: when parse_command succeeds with a non-empty pipeline, every command
\* has a non-NULL argv whose first entry is a string.
C16_ArgvPresent ==
  ParsedOk =>
    \A k \in 1..pipeline.num_commands :
      /\ pipeline.commands[k].has_argv
      /\ Len(pipeline.commands[k].argv) >= 1

\* Every quoted region of word w is closed, and w is more than its quotes.
Balanced(w) == QuoteBefore(w, Len(w) + 1) = "" /\ StripQuotes(w) # <<>>

\* C17: every string a successfully parsed pipeline stores is a word of the
\* line with the characters delimiting its quoted regions removed (on lines
\* all of whose quoted regions are closed).
C17_QuotesRemoved ==
  (ParsedOk /\ \A t \in 1..Len(tokens) : Balanced(tokens[t])) =>
    Stored \subseteq {StripQuotes(tokens[t]) : t \in 1..Len(tokens)}

\* C18: every token tokenize emits is an operator, or a word with no operator
\* character outside quotes: an operator ends the word before it and is a
\* token of its own also where no whitespace surrounds it.
C18_OperatorsSplit ==
  ppc \in {"tokens", "done"} =>
    \A t \in 1..Len(tokens) :
      \/ tokens[t] \in Operators
      \/ \A p \in 1..Len(tokens[t]) :
           \A ch \in OperatorChars : ~UnquotedAt(tokens[t], p, ch)

\* The token sequence toks without its t-th token.
Without(toks, t) == SubSeq(toks, 1, t - 1) \o SubSeq(toks, t + 1, Len(toks))

\* parse_tokens gives every command of toks an argv with a command word.
WellFormed(toks) ==
  LET r == parse_tokens(toks, NoHeap)
  IN  /\ r.result = 0
      /\ \A k \in 1..r.pipeline.num_commands :
           Len(r.pipeline.commands[k].argv) >= 1

\* C19: an `&` that follows a word and stands before a later `|` is ignored:
\* where the line without that `&` is a pipeline of commands, parse_command
\* returns for the line what it returns for the line without the `&`.
C19_AmpersandIgnored ==
  ppc = "done" =>
    \A t \in 2..Len(tokens) :
      (/\ tokens[t] = Amp
       /\ tokens[t - 1] \notin Operators
       /\ \E u \in (t + 1)..Len(tokens) : tokens[u] = Pipe
       /\ WellFormed(Without(tokens, t))) =>
        LET r == parse_tokens(Without(tokens, t), NoHeap)
        IN  result = r.result /\ pipeline = r.pipeline

\* The positions of the tokens of command k (1-based): those after the
\* (k-1)-th `|` token and before the k-th.
Segment(toks, k) ==
  {t \in 1..Len(toks) :
     /\ toks[t] # Pipe
     /\ Cardinality({u \in 1..(t - 1) : toks[u] = Pipe}) = k - 1}

\* The last position of S, 0 if S is empty.
Last(S) == IF S = {} THEN 0 ELSE CHOOSE t \in S : \A u \in S : u <= t

\* The token after position t if t is a position of toks, NULL otherwise.
WordAfter(toks, t) == IF t = 0 \/ t + 1 > Len(toks) THEN <<>> ELSE toks[t + 1]

\* C20: after a successful parse of a line whose `&`, if any, is its last
\* token, each command's input_file is the word after its last `<`, its
\* output_file the word after its last `>` or `>>`, NULL where there is none;
\* append_output tells whether that operator was `>>`; and argv holds neither
\* an operator nor a word that follows a redirection operator.
C20_Redirections ==
  (ParsedOk /\ \A t \in 1..(Len(tokens) - 1) : tokens[t] # Amp) =>
    \A k \in 1..pipeline.num_commands :
      LET c == pipeline.commands[k]
          seg == Segment(tokens, k)
          lastIn == Last({t \in seg : tokens[t] = Lt})
          lastOut == Last({t \in seg : tokens[t] \in {Gt, GtGt}})
          targets == {t \in seg : t > 1 /\ tokens[t - 1] \in {Lt, Gt, GtGt}}
      IN  /\ c.input_file = WordAfter(tokens, lastIn)
          /\ c.input_file \notin Operators
          /\ c.output_file = WordAfter(tokens, lastOut)
          /\ c.output_file \notin Operators
          /\ c.append_output = (lastOut > 0 /\ tokens[lastOut] = GtGt)
          /\ \A j \in 1..Len(c.argv) :
               \E t \in seg \ targets :
                 c.argv[j] = tokens[t] /\ tokens[t] \notin Operators

\* The number of commands a line without quotes is written with: one more
\* than its `|`.
Written == 1 + Cardinality({p \in 1..Len(line) : line[p] = "|"})

\* C21: where parse_command ran to its end without an allocation failing, a
\* line written with exactly MAX_PIPES commands gives 0 and num_commands =
\* MAX_PIPES, and a line written with MAX_PIPES + 1 commands gives -1 and an
\* empty pipeline.
C21_PipeLimit ==
  (ppc = "done" /\ tokens # <<>>) =>
    /\ Written = MAX_PIPES =>
         (result = 0 /\ pipeline.num_commands = MAX_PIPES)
    /\ Written = MAX_PIPES + 1 =>
         (result = -1 /\ pipeline = NoPipeline)

\* C22: where tokenize gave tokens, a redirection operator that no `&` stands
\* before and that is the last token or is followed by an operator token
\* makes parse_command return -1, and no pipeline of a successful parse has
\* an operator as a redirection file name.
C22_RedirectionNeedsWord ==
  (ppc = "done" /\ tokens # <<>>) =>
    /\ (\E t \in 1..Len(tokens) :
          /\ tokens[t] \in {Lt, Gt, GtGt}
          /\ \A u \in 1..(t - 1) : tokens[u] # Amp
          /\ (t = Len(tokens) \/ WordAfter(tokens, t) \in Operators))
         => result = -1
    /\ result = 0 =>
         \A k \in 1..pipeline.num_commands :
           /\ pipeline.commands[k].input_file \notin Operators
           /\ pipeline.commands[k].output_file \notin Operators

\* C23: whenever parse_command has returned -1, no allocation made during
\* the call is live and the pipeline has commands = NULL and num_commands = 0.
C23_FailureReleasesAll ==
  (ppc = "done" /\ result = -1) => (heap = NoHeap /\ pipeline = NoPipeline)

\* C24: after parse_command has returned 0 and free_pipeline has been called
\* once on the pipeline, no allocation made for the line is live.
C24_ParseThenFree ==
  (ppc = "freed" /\ result = 0) => heap = NoHeap

\* C25: every call of free_pipeline on a pipeline leaves it with commands =
\* NULL and num_commands = 0; a call on a pipeline that is already so (zeroed,
\* or freed before) and a call with NULL change neither the pipeline nor the
\* live allocations.
C25_FreeIdempotent ==
  [][/\ (ppc \in {"done", "freed"} /\ ppc' \in {"freed", "again"}) =>
          /\ pipeline' = NoPipeline
          /\ (pipeline = NoPipeline => heap' = heap)
      /\ (ppc' = "null" => (pipeline' = pipeline /\ heap' = heap))]_vars

\* C25 witness: a parsed pipeline with commands has been freed, and
\* free_pipeline has been called on the freed structure once more.
C25_Witness ==
  /\ ppc = "again"
  /\ result = 0
  /\ tokens # <<>>
  /\ pipeline = NoPipeline

\* Line l is empty, is whitespace only, or has `#` as its first character
\* that is not whitespace.
NoOpLine(l) ==
  \/ \A p \in 1..Len(l) : l[p] = " "
  \/ \E q \in 1..Len(l) : l[q] = "#" /\ \A p \in 1..(q - 1) : l[p] = " "

\* The shell has taken a line from fgets in this step.
LineRead ==
  pc = "prompt" /\ ppc' # "eof" /\ (pc' # "prompt" \/ budget' # budget)

\* C26: for a line that is empty, whitespace only or a comment, parse_command
\* returns 0 with num_commands = 0 and commands = NULL, and the step of the
\* loop that reads it returns to the prompt with nothing launched and the
\* status as it was.
C26_NoOpLines ==
  [][(LineRead /\ NoOpLine(line')) =>
       /\ LET r == parse_command(line', heap)
          IN  /\ r.result = 0
              /\ r.pipeline.num_commands = 0
              /\ r.pipeline.commands = <<>>
       /\ pc' = "prompt"
       /\ pl' = <<>>
       /\ exit_status' = exit_status
       /\ procs' = procs
       /\ nextPid' = nextPid
       /\ shell_fds' = shell_fds]_vars

\* C26 witness: a pipeline has returned 127, and the comment line read after
\* it has left the shell at the prompt with that status.
C26_Witness ==
  /\ pc = "prompt"
  /\ line = <<"#">>
  /\ ppc = "done"
  /\ result = 0
  /\ pipeline = NoPipeline
  /\ exit_status = 127

\* C27: the status shell_main returns is 0 at first, becomes the value
\* execute_pipeline returned whenever that call returns, and changes at no
\* other step (so not by empty lines, comments or parse errors); end of
\* input and the line `exit` end the loop, after which the shell reads no
\* line, launches nothing and keeps the status.
C27_ExitStatus ==
  /\ exit_status = 0
  /\ [][/\ IF pc = "ret" /\ pc' = "prompt"
            THEN exit_status' = ret
            ELSE exit_status' = exit_status
        /\ (pc = "prompt" /\ ppc' = "eof") => pc' = "exited"
        /\ (LineRead /\ line' = Exit) => pc' = "exited"
        /\ pc = "exited" =>
             /\ pc' = "exited"
             /\ line' = line
             /\ budget' = budget
             /\ pl' = pl
             /\ nextPid' = nextPid]_vars

\* C27 witness: a pipeline returned 127, the line read next was a parse
\* error, and the shell has left the loop at end of input with status 127.
C27_Witness ==
  /\ pc = "exited"
  /\ ppc = "eof"
  /\ line = <<"<">>
  /\ result = -1
  /\ budget.lines = 0
  /\ exit_status = 127

\* QuoteBefore(l, p) for every p from pos on, q being its value at pos.
RECURSIVE QuoteScan(_, _, _)
QuoteScan(l, pos, q) ==
  IF pos > Len(l) THEN <<q>>
  ELSE <<q>> \o QuoteScan(l, pos + 1,
                          IF q = "" THEN (IF l[pos] \in QuoteChars THEN l[pos] ELSE "")
                          ELSE IF l[pos] = q THEN "" ELSE q)

\* The words of l in order: its longest runs of characters without a break,
\* a break being whitespace outside every quoted region.
Words(l) ==
  LET qs == QuoteScan(l, 1, "")
      brk == [p \in 0..(Len(l) + 1) |->
                IF p = 0 \/ p = Len(l) + 1 THEN TRUE
                ELSE l[p] = " " /\ qs[p] = ""]
      S == {p \in 1..Len(l) : ~brk[p] /\ brk[p - 1]}
      E == {q \in 1..Len(l) : ~brk[q] /\ brk[q + 1]}
  IN  [k \in 1..Cardinality(S) |->
         LET p == CHOOSE x \in S : Cardinality({y \in S : y <= x}) = k
             q == CHOOSE x \in E : Cardinality({y \in E : y <= x}) = k
         IN  SubSeq(l, p, q)]

\* C28: the tokens tokenize gives are the words of the line, where only
\* whitespace outside quoted regions separates words, a region opened by a
\* quote character closes only at the same character, and a region left open
\* runs to the end of the line; a line with a region left open parses
\* without an error.
C28_QuotedBoundaries ==
  (ppc = "done" /\ tokens # <<>>) =>
    /\ tokens = Words(line)
    /\ QuoteBefore(line, Len(line) + 1) # "" => result = 0

\* C28 witness: a parsed line has a token that holds, inside a quoted
\* region, whitespace and the quote character of the other kind.
C28_Witness ==
  /\ ppc = "done"
  /\ result = 0
  /\ \E t \in 1..Len(tokens) :
       /\ \E p \in 1..Len(tokens[t]) :
            tokens[t][p] = " " /\ QuoteBefore(tokens[t], p) # ""
       /\ \E p \in 1..Len(tokens[t]) :
            /\ tokens[t][p] \in QuoteChars
            /\ QuoteBefore(tokens[t], p) \notin {"", tokens[t][p]}

\* The number of positions of l that hold character ch outside quotes.
Unquoted(l, ch) ==
  LET qs == QuoteScan(l, 1, "")
  IN  Cardinality({p \in 1..Len(l) : l[p] = ch /\ qs[p] = ""})

\* The commands of the pipeline, as a set.
Commands == {pipeline.commands[k] : k \in 1..pipeline.num_commands}

\* C29: after a successful parse the pipeline has no more commands than one
\* plus the `|` outside quotes, no more input redirections than `<` outside
\* quotes, no more output redirections than `>` outside quotes, appends only
\* if two `>` are outside quotes, and a background flag only if an `&` is
\* outside quotes; and no token with an operator character inside quotes is
\* an operator.
C29_QuotedOperators ==
  (ppc = "done" /\ result = 0 /\ tokens # <<>>) =>
    /\ pipeline.num_commands <= 1 + Unquoted(line, "|")
    /\ Cardinality({k \in 1..pipeline.num_commands :
                      pipeline.commands[k].input_file # <<>>})
         <= Unquoted(line, "<")
    /\ Cardinality({k \in 1..pipeline.num_commands :
                      pipeline.commands[k].output_file # <<>>})
         <= Unquoted(line, ">")
    /\ (\E c \in Commands : c.append_output) => Unquoted(line, ">") >= 2
    /\ (\E c \in Commands : c.background) => Unquoted(line, "&") >= 1
    /\ \A t \in 1..Len(tokens) :
         (\E p \in 1..Len(tokens[t]) :
            /\ tokens[t][p] \in OperatorChars
            /\ QuoteBefore(tokens[t], p) # "") => tokens[t] \notin Operators

\* C29 witness: a line whose only operator character is a `|` inside quotes
\* has been parsed to one command, the quoted `|` part of an argument.
C29_Witness ==
  /\ ppc = "done"
  /\ result = 0
  /\ pipeline.num_commands = 1
  /\ \E p \in 1..Len(line) : line[p] = "|" /\ QuoteBefore(line, p) # ""
  /\ \A p \in 1..Len(line) : line[p] \notin OperatorChars \ {"|"}
  /\ \E j \in 1..Len(pipeline.commands[1].argv) :
       \E p \in 1..Len(pipeline.commands[1].argv[j]) :
         pipeline.commands[1].argv[j][p] = "|"

\* Token t of toks is an `&` met while the last command is filled: the
\* tokens before it hold no `&` and no redirection operator with an operator
\* where its file name should be, and none of the tokens from it on is `|`.
AmpInLast(toks, t) ==
  /\ toks[t] = Amp
  /\ \A u \in 1..(t - 1) :
       /\ toks[u] # Amp
       /\ toks[u] \in {Lt, Gt, GtGt} => toks[u + 1] \notin Operators
  /\ \A u \in t..Len(toks) : toks[u] # Pipe

\* C30: in every successfully parsed pipeline no command but the last has
\* the background flag; and an `&` met while the last command is filled sets
\* the flag of the last command and ends parsing: the pipeline is the one
\* the tokens up to that `&` give.
C30_BackgroundLast ==
  ParsedOk =>
    /\ \A k \in 1..(pipeline.num_commands - 1) :
         ~pipeline.commands[k].background
    /\ \A t \in 1..Len(tokens) :
         AmpInLast(tokens, t) =>
           /\ pipeline.commands[pipeline.num_commands].background
           /\ pipeline = parse_tokens(SubSeq(tokens, 1, t), NoHeap).pipeline

\* C30 witness: a pipeline of two commands has been parsed from a line with
\* a token after the `&` of its last command; the last command has the flag.
C30_Witness ==
  /\ ParsedOk
  /\ pipeline.num_commands = 2
  /\ pipeline.commands[2].background
  /\ \E t \in 1..(Len(tokens) - 1) : AmpInLast(tokens, t)

----------------------------------------------------------------------------
\* Further properties of execute_pipeline, the handler and the programs.

\* execute_pipeline has been entered and has not returned to the loop yet.
InCall == pc \notin {"prompt", "exited"}

\* C31: between entry to execute_pipeline and its return the cell is
\* non-zero only if the last command of the pipeline is not a background one,
\* and then it holds the pid of the first child of the pipeline.
C31_CellForegroundOnly ==
  (InCall /\ g_foreground_pgid # 0) =>
    /\ ~Background
    /\ Len(pids) >= 1
    /\ g_foreground_pgid = pids[1]

\* The children of the pipeline being executed that are not reaped yet and
\* belong to process group g (a terminated child stays in its group until
\* waitpid has returned for it).
GroupOfCall(g) ==
  {p \in DOMAIN procs :
     /\ InCall
     /\ \E j \in 1..Len(pids) : pids[j] = p
     /\ procs[p].pgid = g}

\* C32: whenever sigint_handler runs and reads a non-zero g_foreground_pgid,
\* the process group of that id holds a child of the pipeline being executed
\* that is not reaped yet.
C32_GroupExists ==
  [][(budget'.sigints < budget.sigints /\ g_foreground_pgid # 0) =>
       GroupOfCall(g_foreground_pgid) # {}]_vars

\* The only child of a one-command foreground pipeline exists: fork has
\* returned in the parent, the child has not terminated and is not reaped.
OnlyChildAlive ==
  /\ InCall
  /\ N = 1
  /\ ~Background
  /\ Len(pids) = 1
  /\ pids[1] \in DOMAIN procs
  /\ procs[pids[1]].stage # "zombie"

\* C33: for a one-command foreground pipeline, a SIGINT the shell handles
\* while the child exists is forwarded to the child by sigint_handler: the
\* cell names the group the child is in.
C33_NoWindow ==
  [][(budget'.sigints < budget.sigints /\ OnlyChildAlive) =>
       pids[1] \in HandlerTargets(Deliver(procs, TtyTargets))]_vars

\* C34: executing pipelines, with pipes and redirections, on success and on
\* failure, leaves descriptors 0, 1 and 2 of the shell process referring to
\* what they referred to when the shell started.
C34_ShellStdKept == shell_std = <<Tty, Tty, Tty>>

\* C34 witness: a two-command pipeline with an input and an output
\* redirection has been launched and waited for, and the shell's descriptors
\* are the terminal's.
C34_Witness ==
  /\ pc = "ret"
  /\ path = "foreground"
  /\ N = 2
  /\ launched = {0, 1}
  /\ \E k \in 1..N : pl[k].input_file
  /\ \E k \in 1..N : pl[k].output_file
  /\ shell_std = <<Tty, Tty, Tty>>

\* C35: a foreground pipeline whose commands are all launched is waited for
\* to the end: execute_pipeline eventually returns, whatever the programs
\* read and write.
C35_ForegroundReturns == (pc = "wait" /\ ~Background) ~> (pc = "ret")

\* C36: after the launch of a command of index k >= 1 has failed, the waits
\* on children 0..k-1 return and execute_pipeline returns.
C36_CleanupReturns == (pc = "cleanup" /\ failed_at >= 1) ~> (pc = "ret")

\* The number of tokens a line of words and `|` separated by blanks is
\* written with: every character that is not a blank is a token of its own.
TokensWritten == Cardinality({p \in 1..Len(line) : ~isspace(line[p])})

\* C37: parse_command returns -1 for a line written with more than
\* MAX_TOKENS - 1 tokens.
C37_TokenLimit ==
  (ppc = "done" /\ TokensWritten > MAX_TOKENS - 1) => result = -1

====
